---- MODULE Spec2Model ----
(***************************************************************************)
(* Model of the streaming endpoint of customer-support-rag:                *)
(* routes/chat.py stream_generator, the asynchronous generator that turns  *)
(* the chain's chunk stream into server-sent-event frames.                 *)
(*                                                                         *)
(* Text is a sequence of one-character strings.  A chunk delivered by the  *)
(* upstream is a record [kind, text]: kind "str" is a plain text chunk,    *)
(* kind "dict" a builtin dict {'answer': text}, kind "AddableDict" a dict  *)
(* subclass with reflected addition (the mapping type a langchain Runnable *)
(* streams), also {'answer': text}.                                        *)
(*                                                                         *)
(* Spec is one generator on any chunk stream; SpecRequest starts it from   *)
(* chat_stream and a request body; SpecTasks runs two generators side by   *)
(* side; SpecClient is frontend/streamlit_app.py send_message_to_backend   *)
(* reading a response body.                                                *)
(***************************************************************************)
EXTENDS Integers, Sequences, FiniteSets, TLC

VARIABLES
    consumed,                  \* chunks the upstream has delivered so far
    chunk,                     \* the loop variable of `async for chunk in ...`
    followup_question_buffer,  \* chat.py:50
    content_buffer,            \* chat.py:51
    in_followup_question,      \* chat.py:52
    match,                     \* chat.py:64, the current re.search result
    followup_questions,        \* chat.py:72, the list the for loop iterates
    qi,                        \* position of the for loop of chat.py:73
    emitted,                   \* frames yielded so far, in order
    pc,                        \* where the generator is suspended
    exc,                       \* the exception that left the generator, if any
    question,                  \* chat.py:25, 34, 73
    chat_input,                \* chat.py:21, the body of the request
    astream_input,             \* chat.py:54, the dict handed to chain.astream
    parked,                    \* the generators suspended while this one runs
    sent,                      \* what the backend put into the response body
    status_code,               \* streamlit_app.py:42, response.status_code
    lines,                     \* streamlit_app.py:47, what iter_lines still holds
    full_response,             \* streamlit_app.py:43
    collected_questions,       \* streamlit_app.py:44, the local followup_questions
    session_followup_questions,\* st.session_state.followup_questions
    result,                    \* what send_message_to_backend returned
    cpc,                       \* where send_message_to_backend is
    started_by,                \* the branch of main() that made the call
    session_messages,          \* st.session_state.messages
    chain,                     \* dependencies.py:7, 0 for None
    built,                     \* the number of chains chat_chain has built
    dep_log,                   \* the calls made to dependencies.py so far
    got                        \* the outcome of the last get_chain

\* the variables of one stream_generator
generator_vars ==
    <<consumed, chunk, followup_question_buffer, content_buffer,
      in_followup_question, match, followup_questions, qi, emitted, pc, exc,
      question>>

\* the variables of the client, send_message_to_backend
client_vars ==
    <<sent, status_code, lines, full_response, collected_questions,
      session_followup_questions, result, cpc, started_by, session_messages>>

\* the variables of main() besides the list of follow-up questions
main_vars == <<started_by, session_messages>>

\* the variables of dependencies.py
deps_vars == <<chain, built, dep_log, got>>

\* what no step of a generator touches
outside == <<chat_input, astream_input, parked, client_vars, deps_vars>>

vars == <<generator_vars, outside>>

----------------------------------------------------------------------------
(* Bounds of the model *)

\* the size of the upstream's output: every chunk it delivers weighs one
\* plus the number of tokens its text is made of
MaxLoad == 5

\* the same for the stream that answers a request of chat_input
MaxRequestLoad == 2

\* the same for the streams of two generators that run side by side, taken
\* together
MaxSharedLoad == 2

\* the number of messages of a request
MaxMessages == 2

\* the number of frames of a response body
MaxFrames == 3

\* the number of calls made to dependencies.py
MaxCalls == 4

\* the tokens chunk texts are made of: the marker syntax, its single
\* characters, white space and a letter
Tokens ==
    { <<"<", "<">>, <<">", ">">>, <<"?", ">">>,
      <<"<">>, <<">">>, <<" ">>, <<"\n">>, <<"a">> }

\* 'Hello <<What is X?>> more text'
HelloMarkerMore ==
    <<"H", "e", "l", "l", "o", " ", "<", "<", "W", "h", "a", "t", " ", "i", "s",
      " ", "X", "?", ">", ">", " ", "m", "o", "r", "e", " ", "t", "e", "x", "t">>

\* '<<Q1?>Q2>>'
TwoQuestions == <<"<", "<", "Q", "1", "?", ">", "Q", "2", ">", ">">>

\* 'text <<dangling'
TextDangling ==
    <<"t", "e", "x", "t", " ", "<", "<", "d", "a", "n", "g", "l", "i", "n", "g">>

\* '[DONE]'
DoneText == <<"[", "D", "O", "N", "E", "]">>

\* longer chunk texts, delivered as a first chunk whatever their weight: a
\* marker holding two questions, a marker between two words, a marker whose
\* second question is blank, a marker whose second question of three is
\* blank, and the four texts above
SampleTexts ==
    { <<"<", "<", "a", "?", ">", "b", ">", ">">>,
      <<"a", " ", "<", "<", "b", ">", ">", " ", "a">>,
      <<"<", "<", "a", "?", ">", " ", ">", ">">>,
      <<"<", "<", "a", "?", ">", " ", "?", ">", "b", ">", ">">>,
      HelloMarkerMore, TwoQuestions, TextDangling, DoneText }

Kinds == {"str", "dict", "AddableDict"}

RECURSIVE Flatten(_)
Flatten(ts) == IF ts = <<>> THEN <<>> ELSE Head(ts) \o Flatten(Tail(ts))

\* TextsUpTo[n]: the texts made of at most n tokens
TextsUpTo ==
    [n \in 0..(MaxLoad - 1) |->
        { Flatten(ts) : ts \in UNION { [1..k -> Tokens] : k \in 0..n } }]

RECURSIVE Weight(_)
\* the least number of tokens that make up the text s
Weight(s) ==
    IF s = <<>> THEN 0
    ELSE IF Len(s) >= 2 /\ SubSeq(s, 1, 2) \in Tokens
         THEN 1 + Weight(SubSeq(s, 3, Len(s)))
         ELSE 1 + Weight(Tail(s))

----------------------------------------------------------------------------
(* Text helpers *)

Whitespace == {" ", "\n"}

IsBlank(s) == \A i \in 1..Len(s) : s[i] \in Whitespace

\* str.strip()
Strip(s) ==
    LET keep == { i \in 1..Len(s) : s[i] \notin Whitespace }
        lo == CHOOSE i \in keep : \A j \in keep : i <= j
        hi == CHOOSE i \in keep : \A j \in keep : j <= i
    IN IF keep = {} THEN <<>> ELSE SubSeq(s, lo, hi)

\* s[i:] starts with pat (i counted from 1)
StartsAt(s, i, pat) ==
    /\ i >= 1
    /\ i + Len(pat) - 1 <= Len(s)
    /\ SubSeq(s, i, i + Len(pat) - 1) = pat

MarkerStart == <<"<", "<">>
MarkerEnd == <<">", ">">>
Delimiter == <<"?", ">">>

\* as with re.DOTALL: '.' matches a line break too
ClosersAnyLine(s, i) ==
    { j \in (i + 2)..Len(s) : StartsAt(s, j, MarkerEnd) }

\* the positions j of a '>>' that closes a '<<' at i: '.' matches no line break
Closers(s, i) ==
    { j \in (i + 2)..Len(s) :
        /\ StartsAt(s, j, MarkerEnd)
        /\ \A k \in (i + 2)..(j - 1) : s[k] # "\n" }

NoMatch == [found |-> FALSE, start |-> 0, stop |-> 0, group |-> <<>>]

\* as re.search(r"<<(.*)>>", s), the greedy pattern: the farthest closer
re_search_greedy(s) ==
    LET starts == { i \in 1..Len(s) : StartsAt(s, i, MarkerStart) /\ Closers(s, i) # {} }
        i == CHOOSE x \in starts : \A y \in starts : x <= y
        j == CHOOSE x \in Closers(s, i) : \A y \in Closers(s, i) : x >= y
    IN IF starts = {} THEN NoMatch
       ELSE [found |-> TRUE, start |-> i, stop |-> j + 1,
             group |-> SubSeq(s, i + 2, j - 1)]

\* as re.search with the questions read from match.group(0)
re_search_group0(s) ==
    LET starts == { i \in 1..Len(s) : StartsAt(s, i, MarkerStart) /\ Closers(s, i) # {} }
        i == CHOOSE x \in starts : \A y \in starts : x <= y
        j == CHOOSE x \in Closers(s, i) : \A y \in Closers(s, i) : x <= y
    IN IF starts = {} THEN NoMatch
       ELSE [found |-> TRUE, start |-> i, stop |-> j + 1,
             group |-> SubSeq(s, i, j + 1)]

\* re.search(r"<<(.*?)>>", s): the leftmost start, then the nearest closer.
\* start is the position of the first '<', stop the position of the last '>'.
re_search(s) ==
    LET starts == { i \in 1..Len(s) : StartsAt(s, i, MarkerStart) /\ Closers(s, i) # {} }
        i == CHOOSE x \in starts : \A y \in starts : x <= y
        j == CHOOSE x \in Closers(s, i) : \A y \in Closers(s, i) : x <= y
    IN IF starts = {} THEN NoMatch
       ELSE [found |-> TRUE, start |-> i, stop |-> j + 1,
             group |-> SubSeq(s, i + 2, j - 1)]

RECURSIVE split_at_question_mark(_)
\* as str.split("?")
split_at_question_mark(s) ==
    LET hits == { i \in 1..Len(s) : s[i] = "?" }
        i == CHOOSE x \in hits : \A y \in hits : x <= y
    IN IF hits = {} THEN <<s>>
       ELSE <<SubSeq(s, 1, i - 1)>> \o split_at_question_mark(SubSeq(s, i + 1, Len(s)))

RECURSIVE split(_)
\* str.split("?>")
split(s) ==
    LET hits == { i \in 1..Len(s) : StartsAt(s, i, Delimiter) }
        i == CHOOSE x \in hits : \A y \in hits : x <= y
    IN IF hits = {} THEN <<s>>
       ELSE <<SubSeq(s, 1, i - 1)>> \o split(SubSeq(s, i + 2, Len(s)))

----------------------------------------------------------------------------
(* Frames.  A yielded frame is recorded with the line of its yield.       *)

\* chat.py:68, 82, 85, 89: f"data: {json.dumps({'content': text})}\n\n"
ContentFrame(text, line) == [tag |-> "content", text |-> text, line |-> line]
\* chat.py:75: f"data: {json.dumps({'followup_questions': [text]})}\n\n"
FollowupFrame(text) == [tag |-> "followup_questions", text |-> text, line |-> 75]
\* chat.py:90: "data: [DONE]\n\n"
DoneFrame == [tag |-> "[DONE]", text |-> <<>>, line |-> 90]

\* chat.py:68, 75, 82, 85, 89: the object handed to json.dumps
Payload(f) ==
    IF f.tag = "content" THEN [content |-> f.text]
    ELSE [followup_questions |-> <<f.text>>]

\* json.dumps of one character of a string: the line break, the quote and
\* the backslash are escaped
json_escape(ch) ==
    IF ch = "\n" THEN <<"\\", "n">>
    ELSE IF ch = "\"" THEN <<"\\", "\"">>
    ELSE IF ch = "\\" THEN <<"\\", "\\">>
    ELSE <<ch>>

RECURSIVE json_escaped(_)
json_escaped(text) ==
    IF text = <<>> THEN <<>> ELSE json_escape(Head(text)) \o json_escaped(Tail(text))

\* json.dumps of a string
json_dumps_str(text) == <<"\"">> \o json_escaped(text) \o <<"\"">>

\* as f"data: {text}\n\n", the text not encoded
json_dumps_bare(obj) ==
    IF "content" \in DOMAIN obj THEN obj.content ELSE obj.followup_questions[1]

\* json.dumps of {'content': text} and of {'followup_questions': [text]}
json_dumps(obj) ==
    IF "content" \in DOMAIN obj
    THEN <<"{", "\"", "c", "o", "n", "t", "e", "n", "t", "\"", ":", " ">>
           \o json_dumps_str(obj.content) \o <<"}">>
    ELSE <<"{", "\"", "f", "o", "l", "l", "o", "w", "u", "p", "_", "q", "u", "e",
           "s", "t", "i", "o", "n", "s", "\"", ":", " ", "[">>
           \o json_dumps_str(obj.followup_questions[1]) \o <<"]", "}">>

\* 'data: '
DataPrefix == <<"d", "a", "t", "a", ":", " ">>

\* chat.py:68, 75, 82, 85, 89, 90: the string a frame is yielded as
Wire(f) ==
    DataPrefix
      \o (IF f.tag = "[DONE]" THEN <<"[", "D", "O", "N", "E", "]">>
          ELSE json_dumps(Payload(f)))
      \o <<"\n", "\n">>

----------------------------------------------------------------------------
(* content_buffer += chunk *)

StrValue(s) == [type |-> "str", value |-> s]
DictValue(s) == [type |-> "AddableDict", value |-> s]
TypeError == [type |-> "TypeError", value |-> <<>>]
ValueError == [type |-> "ValueError", value |-> <<>>]
Raises(v) == v.type \in {"TypeError", "ValueError"}

\* The outcome of `content_buffer += chunk`.  str + str concatenates.
\* str + dict is a TypeError.  str + AddableDict runs AddableDict.__radd__,
\* which builds a dict from the str: the empty str gives an empty dict, any
\* other str a ValueError.  AddableDict + dict merges key by key;
\* AddableDict + str iterates the str as keys and fails on the first one.
AddChunk(cb, c) ==
    IF cb.type = "str"
    THEN CASE c.kind = "str" -> StrValue(cb.value \o c.text)
           [] c.kind = "dict" -> TypeError
           [] c.kind = "AddableDict" ->
                IF cb.value = <<>> THEN DictValue(c.text) ELSE ValueError
    ELSE CASE c.kind = "str" -> IF c.text = <<>> THEN cb ELSE TypeError
           [] OTHER -> DictValue(cb.value \o c.text)

\* as `type(chunk) is dict` would: a subclass of dict is no dict
isinstance_dict_exact(c) == c.kind = "dict"

isinstance_dict(c) == c.kind \in {"dict", "AddableDict"}

----------------------------------------------------------------------------
(* The pieces of the marker scan, chat.py:63-89 *)

\* as chat.py:67 without `if pre_content.strip()`
PreFramesUnguarded(buf, m) ==
    <<ContentFrame(Strip(SubSeq(buf, 1, m.start - 1)), 68)>>

\* chat.py:66-68: the text before the marker, yielded unless blank
PreFrames(buf, m) ==
    LET pre_content == SubSeq(buf, 1, m.start - 1)
    IN IF Strip(pre_content) # <<>>
       THEN <<ContentFrame(Strip(pre_content), 68)>>
       ELSE <<>>

\* as chat.py:72 without `.split("?>")`
QuestionsOfUnsplit(m) ==
    IF Strip(m.group) # <<>> THEN <<Strip(m.group)>> ELSE <<>>

\* chat.py:70-72: the questions of the marker
QuestionsOf(m) ==
    LET followup_question == Strip(m.group)
    IN IF followup_question # <<>> THEN split(followup_question) ELSE <<>>

\* as chat.py:74 without `if question.strip()`
QuestionFramesUnguarded(q) == <<FollowupFrame(Strip(q))>>

\* chat.py:74-75: one question q, yielded unless blank
QuestionFrames(q) ==
    IF Strip(q) # <<>> THEN <<FollowupFrame(Strip(q))>> ELSE <<>>

\* as chat.py:77 left out: the buffer keeps the marker
AfterMarkerKeeps(buf, m) == buf

\* as followup_question_buffer[match.end() + 1:]
AfterMarkerSkipsOne(buf, m) == SubSeq(buf, m.stop + 2, Len(buf))

\* chat.py:77: followup_question_buffer[match.end():]
AfterMarker(buf, m) == SubSeq(buf, m.stop + 1, Len(buf))

\* as chat.py:82 without `.strip()`
RestFramesUntrimmed(buf, flag) ==
    IF ~flag /\ Strip(buf) # <<>> THEN <<ContentFrame(buf, 82)>> ELSE <<>>

\* as chat.py:82 without its `yield`
RestFramesHeld(buf, flag) == <<>>

\* chat.py:81-82: what the scan left, yielded unless blank
RestFrames(buf, flag) ==
    IF ~flag /\ Strip(buf) # <<>> THEN <<ContentFrame(Strip(buf), 82)>> ELSE <<>>

\* as chat.py:81-83 without line 83
RestBufferKept(buf, flag) == buf

\* chat.py:81-83: the buffer after that
RestBuffer(buf, flag) ==
    IF ~flag /\ Strip(buf) # <<>> THEN <<>> ELSE buf

\* chat.py:88-90: the end of the stream
EndFrames(buf) ==
    (IF Strip(buf) # <<>> THEN <<ContentFrame(Strip(buf), 89)>> ELSE <<>>)
        \o <<DoneFrame>>

----------------------------------------------------------------------------
(* The upstream *)

NoChunk == [kind |-> "none", text |-> <<>>]

RECURSIVE Load(_)
\* the weight of the chunks of cs
Load(cs) ==
    IF cs = <<>> THEN 0 ELSE 1 + Weight(Head(cs).text) + Load(Tail(cs))

\* the streams of a generator that serves a request of chat_input, and of
\* generators that run side by side, are explored up to a smaller weight
LoadLimit ==
    IF parked # <<>> THEN MaxSharedLoad
    ELSE IF chat_input.messages # <<>> THEN MaxRequestLoad
    ELSE MaxLoad

\* the weight of the chunks delivered so far, to all generators
LoadUsed ==
    Load(consumed) + (IF parked # <<>> THEN Load(parked[1].consumed) ELSE 0)

\* the chunks the upstream may deliver next
NextChunks ==
    { [kind |-> k, text |-> t] :
        k \in Kinds,
        t \in (IF LoadUsed < LoadLimit
               THEN TextsUpTo[LoadLimit - LoadUsed - 1] ELSE {})
              \cup (IF consumed = <<>> THEN SampleTexts ELSE {}) }

----------------------------------------------------------------------------
\* the application has started: lifespan has called initialize_chain
\* (main.py:16) and the request has been given the chain by get_chain
DepsServing ==
    /\ chain = 1
    /\ built = 1
    /\ dep_log = <<[op |-> "initialize_chain", ok |-> TRUE, id |-> 1]>>
    /\ got = [kind |-> "chain", id |-> 1]

\* no call of send_message_to_backend is under way
ClientIdle ==
    /\ sent = <<>>
    /\ status_code = 0
    /\ lines = <<>>
    /\ full_response = <<>>
    /\ collected_questions = <<>>
    /\ session_followup_questions = <<>>
    /\ result = [kind |-> "none", text |-> <<>>]
    /\ cpc = "idle"
    /\ started_by = "none"
    /\ session_messages = <<>>

Init ==
    /\ consumed = <<>>
    /\ chunk = NoChunk
    /\ followup_question_buffer = <<>>
    /\ content_buffer = StrValue(<<>>)
    /\ in_followup_question = FALSE
    /\ match = NoMatch
    /\ followup_questions = <<>>
    /\ qi = 0
    /\ emitted = <<>>
    /\ pc = "astream"
    /\ exc = "none"
    /\ question = <<>>
    /\ chat_input = [messages |-> <<>>]
    /\ astream_input = [question |-> <<>>]
    /\ parked = <<>>
    /\ ClientIdle
    /\ DepsServing

----------------------------------------------------------------------------
(* stream_generator, one action per stretch of code between two suspensions *)

\* as if chat.py:88-90 stood in a `finally:` clause
UpstreamRaisesFinally ==
    /\ pc = "astream"
    /\ pc' = "raised"
    /\ exc' = "UpstreamError"
    /\ emitted' = emitted \o EndFrames(followup_question_buffer)
    /\ UNCHANGED <<outside, question, consumed, chunk, followup_question_buffer, content_buffer,
                   in_followup_question, match, followup_questions, qi>>

\* chat.py:54: the upstream raises instead of delivering a chunk; the
\* exception leaves the generator
UpstreamRaises ==
    /\ pc = "astream"
    /\ pc' = "raised"
    /\ exc' = "UpstreamError"
    /\ UNCHANGED <<outside, question, consumed, chunk, followup_question_buffer, content_buffer,
                   in_followup_question, match, followup_questions, qi, emitted>>

\* chat.py:54-57: a chunk arrives and `content_buffer += chunk` raises
AppendRaises ==
    /\ pc = "astream"
    /\ \E c \in NextChunks :
         /\ Raises(AddChunk(content_buffer, c))
         /\ consumed' = Append(consumed, c)
         /\ chunk' = c
         /\ exc' = AddChunk(content_buffer, c).type
    /\ pc' = "raised"
    /\ UNCHANGED <<outside, question, followup_question_buffer, content_buffer, in_followup_question,
                   match, followup_questions, qi, emitted>>

\* as if the else branch of chat.py:84-85 also added the chunk to
\* followup_question_buffer
PlainChunkBuffered ==
    /\ pc = "astream"
    /\ \E c \in NextChunks :
         /\ ~Raises(AddChunk(content_buffer, c))
         /\ ~isinstance_dict(c)
         /\ consumed' = Append(consumed, c)
         /\ chunk' = c
         /\ content_buffer' = AddChunk(content_buffer, c)
         /\ followup_question_buffer' = followup_question_buffer \o c.text
         /\ emitted' = Append(emitted, ContentFrame(c.text, 85))
    /\ pc' = "astream"
    /\ UNCHANGED <<outside, question, in_followup_question, match,
                   followup_questions, qi, exc>>

\* chat.py:54-59, 84-85: a chunk that is no dict is yielded as it is
PlainChunk ==
    /\ pc = "astream"
    /\ \E c \in NextChunks :
         /\ ~Raises(AddChunk(content_buffer, c))
         /\ ~isinstance_dict(c)
         /\ consumed' = Append(consumed, c)
         /\ chunk' = c
         /\ content_buffer' = AddChunk(content_buffer, c)
         /\ emitted' = Append(emitted, ContentFrame(c.text, 85))
    /\ pc' = "astream"
    /\ UNCHANGED <<outside, question, followup_question_buffer, in_followup_question, match,
                   followup_questions, qi, exc>>

\* as if a chunk that leaves a '<<' in the buffer set in_followup_question
StructuredChunkSetsFlag ==
    /\ pc = "astream"
    /\ \E c \in NextChunks :
         /\ ~Raises(AddChunk(content_buffer, c))
         /\ isinstance_dict(c)
         /\ consumed' = Append(consumed, c)
         /\ chunk' = c
         /\ content_buffer' = AddChunk(content_buffer, c)
         /\ followup_question_buffer' = followup_question_buffer \o c.text
         /\ in_followup_question' =
              \E i \in 1..Len(c.text) : StartsAt(c.text, i, MarkerStart)
    /\ pc' = "while"
    /\ UNCHANGED <<outside, question, match, followup_questions, qi, emitted, exc>>

\* chat.py:54-61: a dict chunk, its answer goes to the follow-up buffer (a
\* dict without an 'answer' key counts as one whose answer is the empty text)
StructuredChunk ==
    /\ pc = "astream"
    /\ \E c \in NextChunks :
         /\ ~Raises(AddChunk(content_buffer, c))
         /\ isinstance_dict(c)
         /\ consumed' = Append(consumed, c)
         /\ chunk' = c
         /\ content_buffer' = AddChunk(content_buffer, c)
         /\ followup_question_buffer' = followup_question_buffer \o c.text
    /\ pc' = "while"
    /\ UNCHANGED <<outside, question, in_followup_question, match, followup_questions, qi, emitted, exc>>

\* chat.py:63-72: a marker is found; the text before it is yielded, its
\* interior is split into the questions the for loop will go through
WhileMatch ==
    /\ pc = "while"
    /\ re_search(followup_question_buffer).found
    /\ match' = re_search(followup_question_buffer)
    /\ emitted' = emitted \o PreFrames(followup_question_buffer, match')
    /\ followup_questions' = QuestionsOf(match')
    /\ qi' = 1
    /\ pc' = "for"
    /\ UNCHANGED <<outside, question, consumed, chunk, followup_question_buffer, content_buffer,
                   in_followup_question, exc>>

\* chat.py:73-75: one question of the marker; the loop variable is the
\* parameter `question`
ForQuestion ==
    /\ pc = "for"
    /\ qi <= Len(followup_questions)
    /\ question' = followup_questions[qi]
    /\ emitted' = emitted \o QuestionFrames(followup_questions[qi])
    /\ qi' = qi + 1
    /\ UNCHANGED <<outside, consumed, chunk, followup_question_buffer, content_buffer,
                   in_followup_question, match, followup_questions, pc, exc>>

\* chat.py:77: the for loop is over, the buffer drops the marker and what
\* came before it
DropMarker ==
    /\ pc = "for"
    /\ qi > Len(followup_questions)
    /\ followup_question_buffer' = AfterMarker(followup_question_buffer, match)
    /\ pc' = "while"
    /\ UNCHANGED <<outside, question, consumed, chunk, content_buffer, in_followup_question, match,
                   followup_questions, qi, emitted, exc>>

\* chat.py:64, 78-83: no marker left; what remains is yielded unless blank
WhileBreak ==
    /\ pc = "while"
    /\ ~re_search(followup_question_buffer).found
    /\ match' = NoMatch
    /\ emitted' = emitted \o RestFrames(followup_question_buffer, in_followup_question)
    /\ followup_question_buffer' =
          RestBuffer(followup_question_buffer, in_followup_question)
    /\ pc' = "astream"
    /\ UNCHANGED <<outside, question, consumed, chunk, content_buffer, in_followup_question,
                   followup_questions, qi, exc>>

\* chat.py:54, 88-90: the upstream ends; the rest of the buffer, then [DONE]
EndOfStream ==
    /\ pc = "astream"
    /\ emitted' = emitted \o EndFrames(followup_question_buffer)
    /\ pc' = "done"
    /\ UNCHANGED <<outside, question, consumed, chunk, followup_question_buffer, content_buffer,
                   in_followup_question, match, followup_questions, qi, exc>>

Next ==
    \/ UpstreamRaises
    \/ AppendRaises
    \/ PlainChunk
    \/ StructuredChunk
    \/ WhileMatch
    \/ ForQuestion
    \/ DropMarker
    \/ WhileBreak
    \/ EndOfStream

Spec == Init /\ [][Next]_vars

----------------------------------------------------------------------------
(* chat_stream: the request handler that starts a generator *)

\* models/chat.py:4-10: the messages a request may hold
ChatMessages ==
    { [content |-> c, role |-> r] :
        c \in {<<"a">>, <<"b">>}, r \in {"user", "assistant"} }

\* models/chat.py:12-17: the message lists a request may hold; an empty list
\* passes validation
MessageLists == UNION { [1..n -> ChatMessages] : n \in 0..MaxMessages }

\* the state when a request has been parsed and chat_stream is called
InitRequest ==
    /\ consumed = <<>>
    /\ chunk = NoChunk
    /\ followup_question_buffer = <<>>
    /\ content_buffer = StrValue(<<>>)
    /\ in_followup_question = FALSE
    /\ match = NoMatch
    /\ followup_questions = <<>>
    /\ qi = 0
    /\ emitted = <<>>
    /\ pc = "chat_stream"
    /\ exc = "none"
    /\ question = <<>>
    /\ chat_input \in { [messages |-> ms] : ms \in MessageLists }
    /\ astream_input = [question |-> <<>>]
    /\ parked = <<>>
    /\ ClientIdle
    /\ DepsServing

\* as chat.py:25 with messages[0]
chat_stream_first ==
    /\ pc = "chat_stream"
    /\ chat_input.messages # <<>>
    /\ question' = chat_input.messages[1].content
    /\ astream_input' = [question |-> question']
    /\ pc' = "astream"
    /\ UNCHANGED <<consumed, chunk, followup_question_buffer, content_buffer,
                   in_followup_question, match, followup_questions, qi, emitted,
                   exc, chat_input, parked, client_vars, deps_vars>>

\* chat.py:20-28, 34-54: the question is the content of the last message;
\* the generator made for it hands it to chain.astream
chat_stream ==
    /\ pc = "chat_stream"
    /\ chat_input.messages # <<>>
    /\ question' = chat_input.messages[Len(chat_input.messages)].content
    /\ astream_input' = [question |-> question']
    /\ pc' = "astream"
    /\ UNCHANGED <<consumed, chunk, followup_question_buffer, content_buffer,
                   in_followup_question, match, followup_questions, qi, emitted,
                   exc, chat_input, parked, client_vars, deps_vars>>

\* as chat.py:25 with the empty text for the question of an empty list
chat_stream_empty_question ==
    /\ pc = "chat_stream"
    /\ chat_input.messages = <<>>
    /\ pc' = "astream"
    /\ UNCHANGED <<consumed, chunk, followup_question_buffer, content_buffer,
                   in_followup_question, match, followup_questions, qi, emitted,
                   exc, question, outside>>

\* chat.py:25: messages[-1] of an empty list raises IndexError
chat_stream_raises ==
    /\ pc = "chat_stream"
    /\ chat_input.messages = <<>>
    /\ pc' = "raised"
    /\ exc' = "IndexError"
    /\ UNCHANGED <<consumed, chunk, followup_question_buffer, content_buffer,
                   in_followup_question, match, followup_questions, qi, emitted,
                   question, outside>>

NextRequest ==
    \/ chat_stream
    \/ chat_stream_raises
    \/ Next

SpecRequest == InitRequest /\ [][NextRequest]_vars

----------------------------------------------------------------------------
(* stream_generator as a function of the chunks it is given: what the      *)
(* actions above do step by step, computed in one go from the same pieces. *)

RECURSIVE AllQuestionFrames(_)
\* chat.py:73-75: the frames of the for loop
AllQuestionFrames(qs) ==
    IF qs = <<>> THEN <<>>
    ELSE QuestionFrames(Head(qs)) \o AllQuestionFrames(Tail(qs))

RECURSIVE ScanLoop(_)
\* chat.py:63-79: the frames of the while loop and the buffer it leaves
ScanLoop(buf) ==
    LET m == re_search(buf)
        r == ScanLoop(AfterMarker(buf, m))
    IN IF ~m.found THEN [frames |-> <<>>, buf |-> buf]
       ELSE [frames |-> PreFrames(buf, m) \o AllQuestionFrames(QuestionsOf(m)) \o r.frames,
             buf |-> r.buf]

\* chat.py:57-85: one accepted chunk, from the state st = [frames, buf]
ChunkResult(st, c) ==
    IF isinstance_dict(c)
    THEN LET r == ScanLoop(st.buf \o c.text)
         IN [frames |-> st.frames \o r.frames \o RestFrames(r.buf, FALSE),
             buf |-> RestBuffer(r.buf, FALSE)]
    ELSE [frames |-> Append(st.frames, ContentFrame(c.text, 85)), buf |-> st.buf]

RECURSIVE RunChunks(_)
\* chat.py:50-85: the frames yielded and the buffer left once the chunks cs,
\* all accepted, are processed
RunChunks(cs) ==
    IF cs = <<>> THEN [frames |-> <<>>, buf |-> <<>>]
    ELSE ChunkResult(RunChunks(SubSeq(cs, 1, Len(cs) - 1)), cs[Len(cs)])

\* chat.py:50-90: all the frames of a stream cs that ends
Generated(cs) == RunChunks(cs).frames \o EndFrames(RunChunks(cs).buf)

\* the stepwise generator and the function agree
StepwiseAgrees ==
    /\ (pc = "astream" => emitted = RunChunks(consumed).frames
                          /\ followup_question_buffer = RunChunks(consumed).buf)
    /\ (pc = "done" => emitted = Generated(consumed))

----------------------------------------------------------------------------
(* What the claims speak of *)

\* an event is a frame without the line that yielded it
Events(fs) == [i \in 1..Len(fs) |-> [tag |-> fs[i].tag, text |-> fs[i].text]]

DoneCount(fs) == Cardinality({ i \in 1..Len(fs) : fs[i].tag = "[DONE]" })

DoneOnceLast(fs) ==
    /\ fs # <<>>
    /\ fs[Len(fs)].tag = "[DONE]"
    /\ DoneCount(fs) = 1

\* the generator is over: it returned or an exception left it
Over == pc \in {"done", "raised"}

GeneratorRaised == pc = "raised" /\ exc \in {"TypeError", "ValueError"}

----------------------------------------------------------------------------
(* C1 *)

\* C1: whenever the upstream has delivered its chunks without raising and
\* the generator is over, [DONE] was emitted exactly once and is the last
\* frame.
C1_DoneOnceLast ==
    (Over /\ exc # "UpstreamError") => DoneOnceLast(emitted)

----------------------------------------------------------------------------
(* C2 *)

\* C2: a text holding a marker, delivered as two structured chunks, gives
\* the events it gives when delivered as one structured chunk.
C2_ChunkingInvariance ==
    (/\ pc = "done"
     /\ Len(consumed) = 2
     /\ isinstance_dict(consumed[1])
     /\ isinstance_dict(consumed[2])
     /\ re_search(consumed[1].text \o consumed[2].text).found)
    => Events(emitted) =
         Events(Generated(<<[kind |-> consumed[1].kind,
                             text |-> consumed[1].text \o consumed[2].text]>>))

----------------------------------------------------------------------------
(* C3 *)

\* C3: the generator does not raise on a structured chunk: no dict chunk is
\* the chunk at which a TypeError or ValueError left the generator.
C3_StructuredChunkAccepted ==
    isinstance_dict(chunk) => ~GeneratorRaised

----------------------------------------------------------------------------
(* Markers and texts, as the claims speak of them *)

\* the marker spans of s: a '<<' at i closed by a '>>' at j on the same line
MarkerSpans(s) ==
    { sp \in (1..Len(s)) \X (1..Len(s)) :
        /\ StartsAt(s, sp[1], MarkerStart)
        /\ sp[2] >= sp[1] + 2
        /\ StartsAt(s, sp[2], MarkerEnd)
        /\ \A k \in (sp[1] + 2)..(sp[2] - 1) : s[k] # "\n" }

ContainsMarker(s) == MarkerSpans(s) # {}

\* a '<<' followed later by a '>>', line breaks or not
ContainsSpan(s) ==
    \E i, j \in 1..Len(s) :
        StartsAt(s, i, MarkerStart) /\ j >= i + 2 /\ StartsAt(s, j, MarkerEnd)

RECURSIVE RemoveMarkers(_)
\* s without its markers: the leftmost marker, closed at the nearest '>>',
\* is cut out, then the markers of what follows it
RemoveMarkers(s) ==
    LET first == CHOOSE sp \in MarkerSpans(s) :
                    \A other \in MarkerSpans(s) :
                        \/ sp[1] < other[1]
                        \/ (sp[1] = other[1] /\ sp[2] <= other[2])
    IN IF ~ContainsMarker(s) THEN s
       ELSE SubSeq(s, 1, first[1] - 1)
              \o RemoveMarkers(SubSeq(s, first[2] + 2, Len(s)))

\* s without its white space
NoSpace(s) == SelectSeq(s, LAMBDA ch : ch \notin Whitespace)

\* sub occurs in s
Contains(s, sub) == \E i \in 1..(Len(s) + 1) : StartsAt(s, i, sub)

RECURSIVE ContentText(_)
\* the texts of the Content frames of fs, concatenated
ContentText(fs) ==
    IF fs = <<>> THEN <<>>
    ELSE (IF Head(fs).tag = "content" THEN Head(fs).text ELSE <<>>)
           \o ContentText(Tail(fs))

RECURSIVE InputText(_)
\* the texts of the chunks cs, concatenated
InputText(cs) ==
    IF cs = <<>> THEN <<>> ELSE Head(cs).text \o InputText(Tail(cs))

RECURSIVE ChunkwiseText(_)
\* the texts of the chunks cs, each structured chunk without its own markers
ChunkwiseText(cs) ==
    IF cs = <<>> THEN <<>>
    ELSE (IF Head(cs).kind = "str" THEN Head(cs).text
          ELSE RemoveMarkers(Head(cs).text))
           \o ChunkwiseText(Tail(cs))

IsContent(f) == f.tag = "content"
IsFollowup(f) == f.tag = "followup_questions"

AllStructured(cs) == \A k \in 1..Len(cs) : cs[k].kind \in {"dict", "AddableDict"}

\* the frame f is a plain chunk of cs passed through
PassedThrough(f, cs) ==
    /\ f.line = 85
    /\ \E k \in 1..Len(cs) : cs[k].kind = "str" /\ cs[k].text = f.text

----------------------------------------------------------------------------
(* C4 *)

\* C4 as stated: when the stream is done, the Content texts concatenated are
\* the input text with its markers removed, no character lost or added.
C4_ContentIsInputWithoutMarkers ==
    pc = "done" => ContentText(emitted) = RemoveMarkers(InputText(consumed))

\* C4, amended: between two chunks and when the stream is done, the Content
\* texts concatenated are, white space aside, the chunk texts concatenated,
\* every structured chunk without the markers complete within it and every
\* plain chunk as it is.
C4_ContentUpToWhitespace ==
    pc \in {"astream", "done"} =>
        NoSpace(ContentText(emitted)) = NoSpace(ChunkwiseText(consumed))

\* a structured chunk with a marker and text around it went through, and
\* white space was lost
C4_Witness ==
    /\ pc = "done"
    /\ AllStructured(consumed)
    /\ \E i \in 1..Len(emitted) : IsFollowup(emitted[i])
    /\ ContentText(emitted) # <<>>
    /\ ContentText(emitted) # RemoveMarkers(InputText(consumed))

----------------------------------------------------------------------------
(* C5 *)

\* C5 as stated: no Content text holds a '<<' followed later by a '>>'.
C5_NoSpanInContent ==
    \A i \in 1..Len(emitted) :
        IsContent(emitted[i]) => ~ContainsSpan(emitted[i].text)

\* C5, amended: a Content text holds a marker (a '<<' closed by a '>>' on the
\* same line) only when it is a plain chunk passed through as it is; the
\* Content texts the marker scan yields hold none.
C5_NoMarkerInScannedContent ==
    \A i \in 1..Len(emitted) :
        (IsContent(emitted[i]) /\ ContainsMarker(emitted[i].text))
            => PassedThrough(emitted[i], consumed)

\* a structured chunk with a marker was scanned and yielded Content
C5_Witness ==
    /\ pc = "done"
    /\ AllStructured(consumed)
    /\ ContainsMarker(InputText(consumed))
    /\ \E i \in 1..Len(emitted) : IsContent(emitted[i]) /\ emitted[i].line = 68

----------------------------------------------------------------------------
(* C6 *)

\* C6: every FollowupQuestion text is non-empty and trimmed, and the empty
\* marker '<<>>' alone yields no FollowupQuestion.
C6_FollowupNotBlank ==
    /\ \A i \in 1..Len(emitted) :
          IsFollowup(emitted[i]) =>
              /\ ~IsBlank(emitted[i].text)
              /\ Strip(emitted[i].text) = emitted[i].text
    /\ (pc = "done" /\ Len(consumed) = 1 /\ AllStructured(consumed)
          /\ consumed[1].text = MarkerStart \o MarkerEnd)
       => emitted = <<DoneFrame>>

\* a marker with a blank second question went through: one FollowupQuestion
C6_Witness ==
    /\ pc = "done"
    /\ Len(consumed) = 1
    /\ consumed[1].text = <<"<", "<", "a", "?", ">", " ", ">", ">">>
    /\ Events(emitted) = Events(<<FollowupFrame(<<"a">>), DoneFrame>>)

----------------------------------------------------------------------------
(* C7 *)

\* the text s holds a '<<' with no '>>' after it
Unterminated(s) ==
    \E i \in 1..Len(s) :
        /\ StartsAt(s, i, MarkerStart)
        /\ \A j \in (i + 2)..Len(s) : ~StartsAt(s, j, MarkerEnd)

\* s from its first '<<' that no '>>' follows
UnterminatedText(s) ==
    LET open == { i \in 1..Len(s) :
                    /\ StartsAt(s, i, MarkerStart)
                    /\ \A j \in (i + 2)..Len(s) : ~StartsAt(s, j, MarkerEnd) }
        i == CHOOSE x \in open : \A y \in open : x <= y
    IN SubSeq(s, i, Len(s))

\* C7: a structured input with an unterminated marker does not make the
\* generator raise, and the unterminated text is in the Content frame
\* flushed at the end of the stream, right before [DONE].
C7_UnterminatedFlushedAtEnd ==
    (/\ Over
     /\ exc # "UpstreamError"
     /\ consumed # <<>>
     /\ AllStructured(consumed)
     /\ Unterminated(InputText(consumed)))
    => /\ pc = "done"
       /\ Len(emitted) >= 2
       /\ emitted[Len(emitted) - 1].line = 89
       /\ Contains(emitted[Len(emitted) - 1].text,
                   Strip(UnterminatedText(InputText(consumed))))

----------------------------------------------------------------------------
(* C8 *)

\* C8 as stated: no Content text is empty or white space only.
C8_NoBlankContent ==
    \A i \in 1..Len(emitted) :
        IsContent(emitted[i]) => ~IsBlank(emitted[i].text)

\* C8, amended: a Content text is blank only when it is a blank plain chunk
\* passed through as it is; the marker scan yields no blank Content.
C8_NoBlankScannedContent ==
    \A i \in 1..Len(emitted) :
        (IsContent(emitted[i]) /\ IsBlank(emitted[i].text))
            => PassedThrough(emitted[i], consumed)

\* a structured chunk with white space before and after a marker went
\* through and yielded no Content
C8_Witness ==
    /\ pc = "done"
    /\ Len(consumed) = 1
    /\ AllStructured(consumed)
    /\ ContainsMarker(consumed[1].text)
    /\ consumed[1].text[1] \in Whitespace
    /\ consumed[1].text[Len(consumed[1].text)] \in Whitespace
    /\ \A i \in 1..Len(emitted) : ~IsContent(emitted[i])

----------------------------------------------------------------------------
(* C9 *)

\* the texts of the plain chunks of cs, in order
RECURSIVE PlainTexts(_)
PlainTexts(cs) ==
    IF cs = <<>> THEN <<>>
    ELSE (IF Head(cs).kind = "str" THEN <<Head(cs).text>> ELSE <<>>)
           \o PlainTexts(Tail(cs))

\* the texts of the frames of fs yielded at chat.py:85, in order
RECURSIVE PassedTexts(_)
PassedTexts(fs) ==
    IF fs = <<>> THEN <<>>
    ELSE (IF Head(fs).line = 85 THEN <<Head(fs).text>> ELSE <<>>)
           \o PassedTexts(Tail(fs))

\* C9: every plain chunk delivered has given, before the next chunk is read,
\* exactly one Content frame with the chunk as it is, and nothing else.
C9_PlainChunkVerbatim ==
    PassedTexts(emitted) = PlainTexts(consumed)

----------------------------------------------------------------------------
(* C10 *)

\* C10: when the upstream raises, the frames of the chunks before it are
\* out, there is no [DONE] among them, and the generator does nothing more.
C10_UpstreamRaiseStopsEvents ==
    (pc = "raised" /\ exc = "UpstreamError") =>
        /\ emitted = RunChunks(consumed).frames
        /\ DoneCount(emitted) = 0
        /\ ~ENABLED Next

\* the upstream raised after a chunk whose frames are out
C10_Witness ==
    /\ pc = "raised"
    /\ exc = "UpstreamError"
    /\ consumed # <<>>
    /\ \E i \in 1..Len(emitted) : IsFollowup(emitted[i])

----------------------------------------------------------------------------
(* The events of the examples *)

Content(text) == [tag |-> "content", text |-> text]
FollowupQuestion(text) == [tag |-> "followup_questions", text |-> text]
Done == [tag |-> "[DONE]", text |-> <<>>]

\* the stream was one chunk of the text t, taken by the branch of chat.py:59,
\* and it is done
SingleStructured(t) ==
    /\ pc = "done"
    /\ Len(consumed) = 1
    /\ consumed[1].text = t
    /\ isinstance_dict(consumed[1])

----------------------------------------------------------------------------
(* C11 *)

\* C11: the single chunk 'Hello <<What is X?>> more text', taken by the
\* structured branch, gives exactly Content('Hello'),
\* FollowupQuestion('What is X?'), Content('more text'), Done.
C11_HelloExample ==
    SingleStructured(HelloMarkerMore) =>
        Events(emitted) =
            << Content(<<"H", "e", "l", "l", "o">>),
               FollowupQuestion(<<"W", "h", "a", "t", " ", "i", "s", " ", "X", "?">>),
               Content(<<"m", "o", "r", "e", " ", "t", "e", "x", "t">>),
               Done >>

\* that chunk went through the structured branch and the stream is done
C11_Witness ==
    /\ SingleStructured(HelloMarkerMore)
    /\ Len(emitted) = 4
    /\ emitted[1].line = 68 /\ emitted[2].line = 75 /\ emitted[3].line = 82

----------------------------------------------------------------------------
(* C12 *)

\* C12: the single chunk '<<Q1?>Q2>>', taken by the structured branch, gives
\* exactly FollowupQuestion('Q1'), FollowupQuestion('Q2'), Done; the
\* delimiter '?>' is in neither question.
C12_TwoQuestionsExample ==
    SingleStructured(TwoQuestions) =>
        /\ Events(emitted) =
              << FollowupQuestion(<<"Q", "1">>), FollowupQuestion(<<"Q", "2">>), Done >>
        /\ \A i \in 1..Len(emitted) : ~Contains(emitted[i].text, Delimiter)

\* that chunk went through the for loop twice and the stream is done
C12_Witness ==
    /\ SingleStructured(TwoQuestions)
    /\ Len(followup_questions) = 2
    /\ qi = 3

----------------------------------------------------------------------------
(* C13 *)

\* C13 as stated: the single chunk 'text <<dangling', taken by the
\* structured branch, gives Content('text'), then Content('<<dangling') once
\* the stream has ended, then Done: two Content events.
C13_DanglingTwoContents ==
    SingleStructured(TextDangling) =>
        /\ Events(emitted) =
              << Content(<<"t", "e", "x", "t">>),
                 Content(<<"<", "<", "d", "a", "n", "g", "l", "i", "n", "g">>),
                 Done >>
        /\ emitted[2].line = 89

\* C13, amended: the single chunk 'text <<dangling', taken by the structured
\* branch, gives one Content event holding the whole text 'text <<dangling',
\* yielded at chat.py:82 when the chunk has been scanned, then Done; the
\* end of the stream adds no Content.
C13_DanglingOneContent ==
    SingleStructured(TextDangling) =>
        /\ Events(emitted) = << Content(TextDangling), Done >>
        /\ emitted[1].line = 82

\* that chunk was scanned, no marker was found, and the stream is done
C13_Witness ==
    /\ SingleStructured(TextDangling)
    /\ match = NoMatch
    /\ followup_question_buffer = <<>>
    /\ emitted # <<>>

----------------------------------------------------------------------------
(* Markers and their questions, as the claims speak of them *)

RECURSIVE Interiors(_)
\* the interiors of the markers of s, in source order: the leftmost marker,
\* closed at the nearest '>>', then the markers of what follows it
Interiors(s) ==
    LET first == CHOOSE sp \in MarkerSpans(s) :
                    \A other \in MarkerSpans(s) :
                        \/ sp[1] < other[1]
                        \/ (sp[1] = other[1] /\ sp[2] <= other[2])
    IN IF ~ContainsMarker(s) THEN <<>>
       ELSE <<SubSeq(s, first[1] + 2, first[2] - 1)>>
              \o Interiors(SubSeq(s, first[2] + 2, Len(s)))

RECURSIVE ChunkInteriors(_)
\* the interiors of the markers complete within a structured chunk of cs
ChunkInteriors(cs) ==
    IF cs = <<>> THEN <<>>
    ELSE (IF Head(cs).kind = "str" THEN <<>> ELSE Interiors(Head(cs).text))
           \o ChunkInteriors(Tail(cs))

RECURSIVE PiecesOf(_)
\* the pieces of s between its '?>', found from the right
PiecesOf(s) ==
    LET hits == { i \in 1..Len(s) : StartsAt(s, i, Delimiter) }
        j == CHOOSE x \in hits : \A y \in hits : x >= y
    IN IF hits = {} THEN <<s>>
       ELSE Append(PiecesOf(SubSeq(s, 1, j - 1)), SubSeq(s, j + 2, Len(s)))

\* the texts of ts trimmed, the blank ones left out
TrimmedNonBlank(ts) ==
    SelectSeq([i \in 1..Len(ts) |-> Strip(ts[i])], LAMBDA t : t # <<>>)

RECURSIVE NonBlankPieces(_)
\* the non-blank pieces of the interiors ins, trimmed, left to right
NonBlankPieces(ins) ==
    IF ins = <<>> THEN <<>>
    ELSE TrimmedNonBlank(PiecesOf(Head(ins))) \o NonBlankPieces(Tail(ins))

\* the texts of the FollowupQuestion frames of fs, in order
FollowupTexts(fs) ==
    LET qs == SelectSeq(fs, IsFollowup) IN [i \in 1..Len(qs) |-> qs[i].text]

NoDelimiterInside(cs) ==
    \A i \in 1..Len(ChunkInteriors(cs)) : ~Contains(ChunkInteriors(cs)[i], Delimiter)

----------------------------------------------------------------------------
(* C14 *)

\* C14 as stated: when no marker interior holds '?>', every marker gives
\* exactly one FollowupQuestion, whose text is the interior trimmed: the
\* follow-up texts are the trimmed interiors, one for one.
C14_OneQuestionPerMarker ==
    (pc \in {"astream", "done"} /\ NoDelimiterInside(consumed)) =>
        FollowupTexts(emitted) =
            [i \in 1..Len(ChunkInteriors(consumed)) |-> Strip(ChunkInteriors(consumed)[i])]

\* C14, amended: when no marker interior holds '?>', every marker whose
\* interior is not blank gives exactly one FollowupQuestion, whose text is
\* the interior trimmed, and a marker whose interior is blank gives none.
C14_OneQuestionPerNonBlankMarker ==
    (pc \in {"astream", "done"} /\ NoDelimiterInside(consumed)) =>
        FollowupTexts(emitted) = TrimmedNonBlank(ChunkInteriors(consumed))

\* a marker whose interior has white space around a word and no '?>' went
\* through, and so did a marker with a blank interior
C14_Witness ==
    /\ pc = "done"
    /\ NoDelimiterInside(consumed)
    /\ \E i \in 1..Len(ChunkInteriors(consumed)) :
          LET x == ChunkInteriors(consumed)[i]
          IN Strip(x) # <<>> /\ Strip(x) # x
    /\ FollowupTexts(emitted) # <<>>

----------------------------------------------------------------------------
(* C15 *)

\* C15: every FollowupQuestion frame carries a list of exactly one question,
\* and the frames of a marker are its non-blank '?>'-separated pieces, one
\* frame each, left to right.
C15_OneFramePerPiece ==
    /\ \A i \in 1..Len(emitted) :
          IsFollowup(emitted[i]) => Len(Payload(emitted[i]).followup_questions) = 1
    /\ pc \in {"astream", "done"} =>
          FollowupTexts(emitted) = NonBlankPieces(ChunkInteriors(consumed))

\* a marker with two non-blank pieces and a blank one went through
C15_Witness ==
    /\ pc = "done"
    /\ \E i \in 1..Len(ChunkInteriors(consumed)) :
          LET ps == PiecesOf(ChunkInteriors(consumed)[i])
          IN Len(ps) = 3 /\ Len(TrimmedNonBlank(ps)) = 2
    /\ Len(FollowupTexts(emitted)) = 2

----------------------------------------------------------------------------
(* C16 *)

\* 'data: [DONE]' and the blank line after it
SentinelString == DataPrefix \o DoneText \o <<"\n", "\n">>

\* w is 'data: ', a payload on one line, and a blank line
WellFramed(w) ==
    /\ Len(w) >= Len(DataPrefix) + 2
    /\ StartsAt(w, 1, DataPrefix)
    /\ w[Len(w) - 1] = "\n" /\ w[Len(w)] = "\n"
    /\ \A k \in 1..(Len(w) - 2) : w[k] # "\n"

\* C16: every yielded string is 'data: <payload>' followed by a blank line;
\* the string 'data: [DONE]\n\n' is yielded only as the last frame of a
\* stream that is done, and no Content or FollowupQuestion frame, whatever
\* its text, is yielded as that string.
C16_FramingAndSentinel ==
    \A i \in 1..Len(emitted) :
        /\ WellFramed(Wire(emitted[i]))
        /\ Wire(emitted[i]) = SentinelString =>
             /\ i = Len(emitted)
             /\ pc = "done"
             /\ ~IsContent(emitted[i]) /\ ~IsFollowup(emitted[i])

\* a Content frame with the text '[DONE]' was yielded, and the sentinel
\* after it
C16_Witness ==
    /\ pc = "done"
    /\ \E i \in 1..(Len(emitted) - 1) :
          IsContent(emitted[i]) /\ emitted[i].text = DoneText
    /\ Wire(emitted[Len(emitted)]) = SentinelString

\* a Content frame with a line break in its text was yielded
C16_WitnessLineBreak ==
    \E i \in 1..Len(emitted) : IsContent(emitted[i]) /\ Contains(emitted[i].text, <<"\n">>)

----------------------------------------------------------------------------
(* C19 *)

RECURSIVE PerChunkFrames(_)
\* the frames of the chunks cs, each chunk taken as if it were the first
PerChunkFrames(cs) ==
    IF cs = <<>> THEN <<>>
    ELSE RunChunks(<<Head(cs)>>).frames \o PerChunkFrames(Tail(cs))

\* C19: when the generator asks the upstream for its next chunk, every event
\* that comes from the chunks delivered so far has been yielded: the frames
\* yielded are those of each chunk on its own, nothing but white space waits
\* in the buffer, and the end of the stream adds [DONE] alone.
C19_Incremental ==
    /\ pc = "astream" =>
         /\ emitted = PerChunkFrames(consumed)
         /\ IsBlank(followup_question_buffer)
    /\ pc = "done" => emitted = Append(PerChunkFrames(consumed), DoneFrame)

\* two structured chunks with text were delivered and a third is asked for
C19_Witness ==
    /\ pc = "astream"
    /\ Len(consumed) = 2
    /\ AllStructured(consumed)
    /\ ~IsBlank(consumed[1].text) /\ ~IsBlank(consumed[2].text)
    /\ Len(emitted) >= 2

----------------------------------------------------------------------------
(* C17 *)

\* C17: for a request with at least one message, what chain.astream is
\* handed is the content of the last message, whatever its role and whatever
\* the messages before it; the frames yielded depend on the chunks of the
\* chain alone.
C17_LastMessageAsked ==
    (pc # "chat_stream" /\ chat_input.messages # <<>>) =>
        /\ astream_input =
             [question |-> chat_input.messages[Len(chat_input.messages)].content]
        /\ pc = "astream" => emitted = RunChunks(consumed).frames
        /\ pc = "done" => emitted = Generated(consumed)

\* a request of two messages with different contents, the last one from the
\* assistant, was answered by a stream with a follow-up question, which the
\* for loop bound to the name `question`
C17_Witness ==
    /\ pc = "done"
    /\ Len(chat_input.messages) = 2
    /\ chat_input.messages[1].content # chat_input.messages[2].content
    /\ chat_input.messages[2].role = "assistant"
    /\ \E i \in 1..Len(emitted) : IsFollowup(emitted[i])
    /\ question # astream_input.question

----------------------------------------------------------------------------
(* Two generators side by side.  The variables hold the locals of the      *)
(* generator that runs; those of the suspended one are in parked.          *)

\* the locals of the generator that runs
Frame ==
    [consumed |-> consumed, chunk |-> chunk,
     followup_question_buffer |-> followup_question_buffer,
     content_buffer |-> content_buffer,
     in_followup_question |-> in_followup_question,
     match |-> match, followup_questions |-> followup_questions, qi |-> qi,
     emitted |-> emitted, pc |-> pc, exc |-> exc, question |-> question]

\* chat.py:54, 68, 75, 82, 85, 90: the generator that runs is suspended at
\* its await or has just yielded, or it is over
AtSuspension ==
    \/ pc \in {"astream", "done", "raised"}
    \/ /\ pc = "for"
       /\ \/ qi = 1 /\ PreFrames(followup_question_buffer, match) # <<>>
          \/ qi > 1 /\ QuestionFrames(followup_questions[qi - 1]) # <<>>

\* two calls of stream_generator have been made, none has run yet
InitTasks ==
    /\ consumed = <<>>
    /\ chunk = NoChunk
    /\ followup_question_buffer = <<>>
    /\ content_buffer = StrValue(<<>>)
    /\ in_followup_question = FALSE
    /\ match = NoMatch
    /\ followup_questions = <<>>
    /\ qi = 0
    /\ emitted = <<>>
    /\ pc = "astream"
    /\ exc = "none"
    /\ question = <<>>
    /\ chat_input = [messages |-> <<>>]
    /\ astream_input = [question |-> <<>>]
    /\ parked = <<Frame>>
    /\ ClientIdle
    /\ DepsServing

\* as if followup_question_buffer were a module global
SwitchSharingBuffer ==
    /\ parked # <<>>
    /\ AtSuspension
    /\ parked' = <<Frame>>
    /\ consumed' = parked[1].consumed
    /\ chunk' = parked[1].chunk
    /\ content_buffer' = parked[1].content_buffer
    /\ in_followup_question' = parked[1].in_followup_question
    /\ match' = parked[1].match
    /\ followup_questions' = parked[1].followup_questions
    /\ qi' = parked[1].qi
    /\ emitted' = parked[1].emitted
    /\ pc' = parked[1].pc
    /\ exc' = parked[1].exc
    /\ question' = parked[1].question
    /\ UNCHANGED <<followup_question_buffer, chat_input, astream_input, client_vars, deps_vars>>

\* chat.py:34-90: the event loop suspends the generator that runs and
\* resumes the other; each has its own locals
Switch ==
    /\ parked # <<>>
    /\ AtSuspension
    /\ parked' = <<Frame>>
    /\ consumed' = parked[1].consumed
    /\ chunk' = parked[1].chunk
    /\ followup_question_buffer' = parked[1].followup_question_buffer
    /\ content_buffer' = parked[1].content_buffer
    /\ in_followup_question' = parked[1].in_followup_question
    /\ match' = parked[1].match
    /\ followup_questions' = parked[1].followup_questions
    /\ qi' = parked[1].qi
    /\ emitted' = parked[1].emitted
    /\ pc' = parked[1].pc
    /\ exc' = parked[1].exc
    /\ question' = parked[1].question
    /\ UNCHANGED <<chat_input, astream_input, client_vars, deps_vars>>

NextTasks ==
    \/ Switch
    \/ Next

SpecTasks == InitTasks /\ [][NextTasks]_vars

----------------------------------------------------------------------------
(* C18 *)

RECURSIVE ContentBufferOf(_)
\* content_buffer once the chunks cs, all accepted, are added
ContentBufferOf(cs) ==
    IF cs = <<>> THEN StrValue(<<>>)
    ELSE AddChunk(ContentBufferOf(SubSeq(cs, 1, Len(cs) - 1)), cs[Len(cs)])

\* the generator with the locals f is where it would be had it run alone
\* on the chunks it was given
AsAlone(f) ==
    /\ f.in_followup_question = FALSE
    /\ f.pc = "astream" =>
         /\ f.emitted = RunChunks(f.consumed).frames
         /\ f.followup_question_buffer = RunChunks(f.consumed).buf
         /\ f.content_buffer = ContentBufferOf(f.consumed)
    /\ f.pc = "done" => f.emitted = Generated(f.consumed)

\* C18: of two generators interleaved at their awaits and yields, each
\* yields the frames it would yield alone on its chunks, and its buffers and
\* flag are what they would be alone.
C18_Isolation ==
    parked # <<>> => AsAlone(Frame) /\ AsAlone(parked[1])

\* one generator is suspended after a yield inside a chunk while the other,
\* which has yielded too, waits for its next chunk; and both end
C18_Witness ==
    /\ parked # <<>>
    /\ pc = "for"
    /\ emitted # <<>>
    /\ parked[1].pc = "astream"
    /\ parked[1].emitted # <<>>

C18_WitnessBothDone ==
    /\ parked # <<>>
    /\ pc = "done" /\ Len(emitted) >= 2
    /\ parked[1].pc = "done" /\ Len(parked[1].emitted) >= 2

----------------------------------------------------------------------------
(* The client: send_message_to_backend of frontend/streamlit_app.py (the   *)
(* same code stands in frontend/deploy_streamlit.py:49-72).                *)

\* a line cut short on its way, and a comment line
CorruptItem == [tag |-> "corrupt", text |-> <<>>, line |-> 0]
CommentItem == [tag |-> "comment", text |-> <<>>, line |-> 0]

\* what a response body may be made of: frames of the backend, whole or
\* cut short, and comment lines
BodyItems ==
    { ContentFrame(<<"a">>, 82), ContentFrame(<<"\n", "b">>, 85),
      ContentFrame(DoneText, 85), FollowupFrame(<<"q">>), DoneFrame,
      CorruptItem, CommentItem }

\* the characters an item puts into the body
BodyText(item) ==
    IF item.tag = "corrupt"
    THEN LET w == Wire(ContentFrame(<<"a">>, 82)) IN SubSeq(w, 1, Len(w) - 4) \o <<"\n", "\n">>
    ELSE IF item.tag = "comment" THEN <<":", "\n", "\n">>
    ELSE Wire(item)

RECURSIVE Body(_)
Body(items) == IF items = <<>> THEN <<>> ELSE BodyText(Head(items)) \o Body(Tail(items))

RECURSIVE splitlines(_)
\* streamlit_app.py:47: response.iter_lines(), the body cut at its line breaks
splitlines(s) ==
    LET breaks == { i \in 1..Len(s) : s[i] = "\n" }
        i == CHOOSE x \in breaks : \A y \in breaks : x <= y
    IN IF s = <<>> THEN <<>>
       ELSE IF breaks = {} THEN <<s>>
       ELSE <<SubSeq(s, 1, i - 1)>> \o splitlines(SubSeq(s, i + 1, Len(s)))

JSONDecodeError == [ok |-> FALSE, value |-> <<>>]

RECURSIVE json_unescaped(_)
\* the characters between the quotes of a JSON string, decoded; a bare
\* quote, a bare line break or an unknown escape is an error
json_unescaped(t) ==
    IF t = <<>> THEN [ok |-> TRUE, value |-> <<>>]
    ELSE IF Head(t) = "\\"
    THEN IF Len(t) >= 2 /\ t[2] \in {"n", "\"", "\\"}
         THEN LET r == json_unescaped(SubSeq(t, 3, Len(t)))
              IN [ok |-> r.ok,
                  value |-> <<(IF t[2] = "n" THEN "\n" ELSE t[2])>> \o r.value]
         ELSE JSONDecodeError
    ELSE IF Head(t) \in {"\"", "\n"} THEN JSONDecodeError
    ELSE LET r == json_unescaped(Tail(t))
         IN [ok |-> r.ok, value |-> <<Head(t)>> \o r.value]

\* json.loads of a JSON string
json_loads_str(w) ==
    IF Len(w) >= 2 /\ w[1] = "\"" /\ w[Len(w)] = "\""
    THEN json_unescaped(SubSeq(w, 2, Len(w) - 1))
    ELSE JSONDecodeError

\* '{"content": ' and '{"followup_questions": ['
ContentOpen == <<"{", "\"", "c", "o", "n", "t", "e", "n", "t", "\"", ":", " ">>
FollowupOpen ==
    <<"{", "\"", "f", "o", "l", "l", "o", "w", "u", "p", "_", "q", "u", "e", "s",
      "t", "i", "o", "n", "s", "\"", ":", " ", "[">>

\* streamlit_app.py:55: json.loads, for the two objects the backend sends;
\* any other text is a JSONDecodeError
json_loads(w) ==
    IF StartsAt(w, 1, ContentOpen) /\ Len(w) > Len(ContentOpen) /\ w[Len(w)] = "}"
    THEN LET r == json_loads_str(SubSeq(w, Len(ContentOpen) + 1, Len(w) - 1))
         IN IF r.ok THEN [ok |-> TRUE, value |-> [content |-> r.value]]
            ELSE JSONDecodeError
    ELSE IF /\ StartsAt(w, 1, FollowupOpen) /\ Len(w) > Len(FollowupOpen) + 1
            /\ w[Len(w) - 1] = "]" /\ w[Len(w)] = "}"
    THEN LET r == json_loads_str(SubSeq(w, Len(FollowupOpen) + 1, Len(w) - 2))
         IN IF r.ok THEN [ok |-> TRUE, value |-> [followup_questions |-> <<r.value>>]]
            ELSE JSONDecodeError
    ELSE JSONDecodeError

\* streamlit_app.py:48-50: the line is a data line
IsDataLine(line) == line # <<>> /\ StartsAt(line, 1, DataPrefix)

\* streamlit_app.py:51: line_str[6:]
data_str(line) == SubSeq(line, 7, Len(line))

\* streamlit_app.py:64: the lists of questions an earlier exchange may have
\* left in the session; none when there was no exchange
OfferedBefore == { <<>>, <<<<"a">>, <<"b">>>> }

\* streamlit_app.py:140: what the user may type
Prompts == { <<"a">>, <<"b">> }

Range(f) == { f[i] : i \in DOMAIN f }

\* streamlit_app.py:143, 156: the messages of the exchange that left the
\* questions qs in the session
History(qs) ==
    IF qs = <<>> THEN <<>>
    ELSE << [role |-> "user", content |-> <<"b">>],
            [role |-> "assistant", content |-> <<"a">>] >>

\* main() has appended the user's message (streamlit_app.py:122-123 or
\* 142-143), has called send_message_to_backend, and a response has arrived
InitClient ==
    /\ consumed = <<>>
    /\ chunk = NoChunk
    /\ followup_question_buffer = <<>>
    /\ content_buffer = StrValue(<<>>)
    /\ in_followup_question = FALSE
    /\ match = NoMatch
    /\ followup_questions = <<>>
    /\ qi = 0
    /\ emitted = <<>>
    /\ pc = "astream"
    /\ exc = "none"
    /\ question = <<>>
    /\ chat_input = [messages |-> <<>>]
    /\ astream_input = [question |-> <<>>]
    /\ parked = <<>>
    /\ sent \in UNION { [1..n -> BodyItems] : n \in 0..MaxFrames }
    /\ status_code \in {200, 500}
    /\ lines = splitlines(Body(sent))
    /\ full_response = <<>>
    /\ collected_questions = <<>>
    /\ session_followup_questions \in OfferedBefore
    /\ result = [kind |-> "none", text |-> <<>>]
    /\ cpc = "post"
    /\ started_by \in {"typed", "click"}
    /\ started_by = "click" => session_followup_questions # <<>>
    /\ session_messages \in
          { History(session_followup_questions) \o <<[role |-> "user", content |-> c]>> :
              c \in IF started_by = "click"
                    THEN Range(session_followup_questions) ELSE Prompts }
    /\ DepsServing

\* streamlit_app.py:42, 66-67: any status but 200 gives an error text
client_status_error ==
    /\ cpc = "post"
    /\ status_code # 200
    /\ result' = [kind |-> "error", text |-> <<>>]
    /\ cpc' = "returned"
    /\ UNCHANGED <<generator_vars, deps_vars, main_vars, chat_input, astream_input,
                   parked, sent,
                   status_code, lines, full_response, collected_questions,
                   session_followup_questions>>

\* streamlit_app.py:42-44
client_status_ok ==
    /\ cpc = "post"
    /\ status_code = 200
    /\ full_response' = <<>>
    /\ collected_questions' = <<>>
    /\ cpc' = "iter"
    /\ UNCHANGED <<generator_vars, deps_vars, main_vars, chat_input, astream_input,
                   parked, sent,
                   status_code, lines, session_followup_questions, result>>

\* streamlit_app.py:47-50: an empty line or a line without 'data: '
client_skip_line ==
    /\ cpc = "iter"
    /\ lines # <<>>
    /\ ~IsDataLine(Head(lines))
    /\ lines' = Tail(lines)
    /\ UNCHANGED <<generator_vars, deps_vars, main_vars, chat_input, astream_input,
                   parked, sent,
                   status_code, full_response, collected_questions,
                   session_followup_questions, result, cpc>>

\* as streamlit_app.py:52-53 with `continue` for `break`
client_done_line_continue ==
    /\ cpc = "iter"
    /\ lines # <<>>
    /\ IsDataLine(Head(lines))
    /\ data_str(Head(lines)) = DoneText
    /\ lines' = Tail(lines)
    /\ UNCHANGED <<generator_vars, deps_vars, main_vars, chat_input, astream_input,
                   parked, sent,
                   status_code, full_response, collected_questions,
                   session_followup_questions, result, cpc>>

\* streamlit_app.py:52-53, 64-65: the sentinel ends the loop; the questions
\* are stored and the text returned
client_done_line ==
    /\ cpc = "iter"
    /\ lines # <<>>
    /\ IsDataLine(Head(lines))
    /\ data_str(Head(lines)) = DoneText
    /\ session_followup_questions' = collected_questions
    /\ result' = [kind |-> "text", text |-> full_response]
    /\ cpc' = "returned"
    /\ UNCHANGED <<generator_vars, deps_vars, main_vars, chat_input, astream_input,
                   parked, sent,
                   status_code, lines, full_response, collected_questions>>

\* streamlit_app.py:54-59: a line that holds a JSON object
client_json_line ==
    /\ cpc = "iter"
    /\ lines # <<>>
    /\ IsDataLine(Head(lines))
    /\ data_str(Head(lines)) # DoneText
    /\ json_loads(data_str(Head(lines))).ok
    /\ LET data == json_loads(data_str(Head(lines))).value
       IN /\ full_response' =
               IF "content" \in DOMAIN data
               THEN full_response \o data.content ELSE full_response
          /\ collected_questions' =
               IF "followup_questions" \in DOMAIN data
               THEN collected_questions \o data.followup_questions
               ELSE collected_questions
    /\ lines' = Tail(lines)
    /\ UNCHANGED <<generator_vars, deps_vars, main_vars, chat_input, astream_input,
                   parked, sent,
                   status_code, session_followup_questions, result, cpc>>

\* as streamlit_app.py:54-59 without the `except json.JSONDecodeError` of
\* lines 60-61: the error reaches the handler of line 71
client_bad_json_aborts ==
    /\ cpc = "iter"
    /\ lines # <<>>
    /\ IsDataLine(Head(lines))
    /\ data_str(Head(lines)) # DoneText
    /\ ~json_loads(data_str(Head(lines))).ok
    /\ result' = [kind |-> "error", text |-> <<>>]
    /\ cpc' = "returned"
    /\ UNCHANGED <<generator_vars, deps_vars, main_vars, chat_input, astream_input,
                   parked, sent,
                   status_code, lines, full_response, collected_questions,
                   session_followup_questions>>

\* streamlit_app.py:54-55, 60-61: a line json.loads rejects is passed over
client_bad_json ==
    /\ cpc = "iter"
    /\ lines # <<>>
    /\ IsDataLine(Head(lines))
    /\ data_str(Head(lines)) # DoneText
    /\ ~json_loads(data_str(Head(lines))).ok
    /\ lines' = Tail(lines)
    /\ UNCHANGED <<generator_vars, deps_vars, main_vars, chat_input, astream_input,
                   parked, sent,
                   status_code, full_response, collected_questions,
                   session_followup_questions, result, cpc>>

\* streamlit_app.py:47, 64-65: the body ends without a sentinel
client_end_of_body ==
    /\ cpc = "iter"
    /\ lines = <<>>
    /\ session_followup_questions' = collected_questions
    /\ result' = [kind |-> "text", text |-> full_response]
    /\ cpc' = "returned"
    /\ UNCHANGED <<generator_vars, deps_vars, main_vars, chat_input, astream_input,
                   parked, sent,
                   status_code, lines, full_response, collected_questions>>

\* streamlit_app.py:153-157: the chat input branch appends the response and
\* reruns
main_typed ==
    /\ cpc = "returned"
    /\ started_by = "typed"
    /\ session_messages' =
          Append(session_messages, [role |-> "assistant", content |-> result.text])
    /\ cpc' = "rerun"
    /\ UNCHANGED <<generator_vars, deps_vars, chat_input, astream_input, parked, sent,
                   status_code, lines, full_response, collected_questions,
                   session_followup_questions, result, started_by>>

\* streamlit_app.py:131-137: the button branch appends the response, empties
\* the list of questions and reruns
main_click ==
    /\ cpc = "returned"
    /\ started_by = "click"
    /\ session_messages' =
          Append(session_messages, [role |-> "assistant", content |-> result.text])
    /\ session_followup_questions' = <<>>
    /\ cpc' = "rerun"
    /\ UNCHANGED <<generator_vars, deps_vars, chat_input, astream_input, parked, sent,
                   status_code, lines, full_response, collected_questions,
                   result, started_by>>

NextClient ==
    \/ client_status_error
    \/ client_status_ok
    \/ client_skip_line
    \/ client_done_line
    \/ client_json_line
    \/ client_bad_json
    \/ client_end_of_body
    \/ main_typed
    \/ main_click

SpecClient == InitClient /\ [][NextClient]_vars

----------------------------------------------------------------------------
(* C20 *)

RECURSIVE BeforeSentinel(_)
\* the items of a body that stand before its first sentinel
BeforeSentinel(items) ==
    IF items = <<>> \/ Head(items).tag = "[DONE]" THEN <<>>
    ELSE <<Head(items)>> \o BeforeSentinel(Tail(items))

\* C20: when a response with status 200 has been read, the text returned is
\* the 'content' fields of the frames before the first sentinel, in order,
\* and the questions stored are the 'followup_questions' elements of those
\* frames, in order; what follows the sentinel adds nothing.
C20_ClientReassembly ==
    (cpc = "returned" /\ status_code = 200) =>
        /\ result = [kind |-> "text", text |-> ContentText(BeforeSentinel(sent))]
        /\ session_followup_questions = FollowupTexts(BeforeSentinel(sent))

\* a body with a Content frame and a question before its sentinel, and a
\* Content frame after it, has been read
C20_Witness ==
    /\ cpc = "returned"
    /\ status_code = 200
    /\ Len(sent) = 3
    /\ IsContent(sent[1]) /\ sent[2] = DoneFrame /\ IsContent(sent[3])
    /\ result.text = sent[1].text

----------------------------------------------------------------------------
(* C21 *)

\* the frames of items that json.loads accepts
WellFormedFrames(items) ==
    SelectSeq(items, LAMBDA it : it.tag \in {"content", "followup_questions"})

HasCorrupt(items) == \E i \in 1..Len(items) : items[i].tag = "corrupt"

\* C21: a frame that json.loads rejects is passed over and nothing else is
\* lost: at every moment of the reading, the answer and the questions
\* gathered are those of the well-formed frames read so far, and when a body
\* with such a frame before its sentinel has been read, the text returned and
\* the questions stored are those of all well-formed frames before the
\* sentinel, the ones after the corrupt frame included.
C21_CorruptFrameSkipped ==
    /\ (cpc = "returned" /\ status_code = 200 /\ HasCorrupt(BeforeSentinel(sent))) =>
         /\ result.kind = "text"
         /\ result.text = ContentText(WellFormedFrames(BeforeSentinel(sent)))
         /\ session_followup_questions =
              FollowupTexts(WellFormedFrames(BeforeSentinel(sent)))
    /\ cpc = "iter" =>
         \E n \in 0..Len(sent) :
            /\ LET rest == splitlines(Body(SubSeq(sent, n + 1, Len(sent))))
               IN lines = rest \/ (n >= 1 /\ lines = <<<<>>>> \o rest)
            /\ full_response = ContentText(WellFormedFrames(SubSeq(sent, 1, n)))
            /\ collected_questions = FollowupTexts(WellFormedFrames(SubSeq(sent, 1, n)))

\* a body with a Content frame, a corrupt frame and a question after it has
\* been read to its end
C21_Witness ==
    /\ cpc = "returned"
    /\ status_code = 200
    /\ Len(sent) = 3
    /\ IsContent(sent[1]) /\ sent[2].tag = "corrupt" /\ IsFollowup(sent[3])
    /\ result.text = sent[1].text
    /\ session_followup_questions = <<sent[3].text>>

----------------------------------------------------------------------------
(* C22 *)

RECURSIVE AfterMarkers(_)
\* what follows the last complete marker of s, markers taken leftmost first
AfterMarkers(s) ==
    LET first == CHOOSE sp \in MarkerSpans(s) :
                    \A other \in MarkerSpans(s) :
                        \/ sp[1] < other[1]
                        \/ (sp[1] = other[1] /\ sp[2] <= other[2])
    IN IF ~ContainsMarker(s) THEN s
       ELSE AfterMarkers(SubSeq(s, first[2] + 2, Len(s)))

\* C22: when a structured chunk has been scanned, the text that follows its
\* last complete marker stays in the buffer and no Content frame carries it
\* before a later chunk or the end of the stream: between chunks no frame
\* comes from the flush of chat.py:82, and after a single structured chunk
\* the buffer holds what followed its last marker.
C22_RestLeftPending ==
    /\ \A i \in 1..Len(emitted) : emitted[i].line # 82
    /\ (pc = "astream" /\ Len(consumed) = 1 /\ isinstance_dict(consumed[1])) =>
         followup_question_buffer = AfterMarkers(consumed[1].text)

----------------------------------------------------------------------------
(* C23 *)

\* the first marker span of s: leftmost start, then nearest closer
FirstSpan(s) ==
    CHOOSE sp \in MarkerSpans(s) :
        \A other \in MarkerSpans(s) :
            \/ sp[1] < other[1]
            \/ (sp[1] = other[1] /\ sp[2] <= other[2])

\* the text t as a Content event, unless blank
ContentEvents(t) == IF Strip(t) # <<>> THEN <<Content(Strip(t))>> ELSE <<>>

\* the texts ts as FollowupQuestion events
QuestionEvents(ts) == [i \in 1..Len(ts) |-> FollowupQuestion(ts[i])]

RECURSIVE SourceOrderEvents(_)
\* the events of the text s of a structured chunk, in source order: the
\* text before the first marker, the questions of that marker, then the
\* events of what follows it
SourceOrderEvents(s) ==
    IF ~ContainsMarker(s) THEN ContentEvents(s)
    ELSE LET sp == FirstSpan(s)
         IN ContentEvents(SubSeq(s, 1, sp[1] - 1))
              \o QuestionEvents(TrimmedNonBlank(PiecesOf(SubSeq(s, sp[1] + 2, sp[2] - 1))))
              \o SourceOrderEvents(SubSeq(s, sp[2] + 2, Len(s)))

RECURSIVE ExpectedEvents(_)
\* the events of the chunks cs, all accepted
ExpectedEvents(cs) ==
    IF cs = <<>> THEN <<>>
    ELSE (IF Head(cs).kind = "str" THEN <<Content(Head(cs).text)>>
          ELSE SourceOrderEvents(Head(cs).text))
           \o ExpectedEvents(Tail(cs))

\* the position of the leftmost '<<' of s and of the nearest '>>' after it
LeftmostOpener(s) ==
    CHOOSE i \in 1..Len(s) :
        /\ StartsAt(s, i, MarkerStart)
        /\ \A k \in 1..(i - 1) : ~StartsAt(s, k, MarkerStart)
NearestCloser(s, i) ==
    CHOOSE j \in (i + 2)..Len(s) :
        /\ StartsAt(s, j, MarkerEnd)
        /\ \A k \in (i + 2)..(j - 1) : ~StartsAt(s, k, MarkerEnd)

\* C23 as stated: the marker handled at a scan step is the span from the
\* leftmost '<<' of the buffer to the nearest '>>' after it.
C23_LeftmostOpenerNearestCloser ==
    pc = "for" =>
        /\ match.start = LeftmostOpener(followup_question_buffer)
        /\ match.stop = NearestCloser(followup_question_buffer, match.start) + 1

\* C23, amended: the marker handled at a scan step is the span from the
\* leftmost '<<' that has a '>>' after it on the same line to the nearest
\* such '>>'; the events of a chunk come in source order (the text before a
\* marker, its questions, then what follows it), and when the next chunk is
\* asked for no complete marker is left in the buffer.
C23_SourceOrder ==
    /\ pc = "for" =>
         /\ match.start = FirstSpan(followup_question_buffer)[1]
         /\ match.stop = FirstSpan(followup_question_buffer)[2] + 1
    /\ pc = "astream" =>
         /\ ~ContainsMarker(followup_question_buffer)
         /\ Events(emitted) = ExpectedEvents(consumed)

\* a chunk with text before a marker, a marker with a question and text
\* after it went through, frame by frame
C23_Witness ==
    /\ pc = "astream"
    /\ Len(consumed) = 1
    /\ isinstance_dict(consumed[1])
    /\ Len(emitted) = 3
    /\ emitted[1].line = 68 /\ emitted[2].line = 75 /\ emitted[3].line = 82

\* a chunk with two markers went through
C23_WitnessTwoMarkers ==
    /\ pc = "astream"
    /\ Len(consumed) = 1
    /\ isinstance_dict(consumed[1])
    /\ Len(Interiors(consumed[1].text)) = 2

----------------------------------------------------------------------------
(* C24 *)

\* C24: the scan loop ends: while a chunk is scanned a step is always
\* possible; an iteration that found a marker leaves a strictly shorter
\* buffer, namely what followed the marker; an iteration that finds no
\* marker leaves the loop, and one that finds a marker goes through it.
C24_ScanLoopTerminates ==
    /\ [](pc \in {"while", "for"} => ENABLED Next)
    /\ [][ /\ (pc = "for" /\ pc' = "while") =>
                /\ Len(followup_question_buffer') < Len(followup_question_buffer)
                /\ followup_question_buffer' =
                     SubSeq(followup_question_buffer,
                            FirstSpan(followup_question_buffer)[2] + 2,
                            Len(followup_question_buffer))
           /\ (pc = "while" /\ ~ContainsMarker(followup_question_buffer)) =>
                pc' = "astream"
           /\ (pc = "while" /\ ContainsMarker(followup_question_buffer)) =>
                pc' = "for"
           /\ (pc = "for" /\ pc' = "for") => qi' = qi + 1 ]_vars

\* the loop has dropped a marker and the buffer still holds another one
C24_Witness ==
    /\ pc = "while"
    /\ match.found
    /\ Len(followup_question_buffer) < Len(consumed[Len(consumed)].text)
    /\ ContainsMarker(followup_question_buffer)

----------------------------------------------------------------------------
(* C25 *)

\* C25: in_followup_question is False in every state of stream_generator,
\* so the guard of chat.py:81 is the test of the buffer alone.
C25_FlagNeverSet ==
    /\ in_followup_question = FALSE
    /\ \A i \in 1..Len(parked) : parked[i].in_followup_question = FALSE
    /\ RestFrames(followup_question_buffer, in_followup_question) =
         (IF IsBlank(followup_question_buffer) THEN <<>>
          ELSE <<ContentFrame(Strip(followup_question_buffer), 82)>>)

\* the guard of chat.py:81 is about to be tested on a buffer that holds a
\* '<<' without its '>>'
C25_Witness ==
    /\ pc = "while"
    /\ ~ContainsMarker(followup_question_buffer)
    /\ Contains(followup_question_buffer, MarkerStart)

----------------------------------------------------------------------------
(* C27 *)

\* C27: when the upstream ends, the follow-up buffer is empty or white
\* space only, so the flush of chat.py:88-89 yields nothing: no frame ever
\* comes from line 89 and [DONE] follows the last frame of the chunks.
C27_EndFlushSilent ==
    /\ pc \in {"astream", "done"} => Strip(followup_question_buffer) = <<>>
    /\ \A i \in 1..Len(emitted) : emitted[i].line # 89
    /\ pc = "done" => EndFrames(followup_question_buffer) = <<DoneFrame>>

\* a stream of structured chunks with text has ended while white space was
\* left in the buffer
C27_Witness ==
    /\ pc = "done"
    /\ followup_question_buffer # <<>>
    /\ \E k \in 1..Len(consumed) : consumed[k].kind # "str" /\ ~IsBlank(consumed[k].text)
    /\ Len(emitted) >= 2

----------------------------------------------------------------------------
(* C28 *)

\* the spans of s, from a '<<' to a later '>>', with a line break inside
BrokenSpans(s) ==
    { sp \in (1..Len(s)) \X (1..Len(s)) :
        /\ StartsAt(s, sp[1], MarkerStart)
        /\ sp[2] >= sp[1] + 2
        /\ StartsAt(s, sp[2], MarkerEnd)
        /\ \E k \in (sp[1] + 2)..(sp[2] - 1) : s[k] = "\n" }

\* the text of some Content frame of fs holds t
InSomeContent(fs, t) ==
    \E i \in 1..Len(fs) : IsContent(fs[i]) /\ Contains(fs[i].text, t)

\* the stream so far is one structured chunk, scanned to its end
OneStructuredScanned ==
    /\ pc = "astream"
    /\ Len(consumed) = 1
    /\ isinstance_dict(consumed[1])

\* C28 as stated: a span with a line break inside gives no FollowupQuestion
\* and its text, delimiters included, stands inside a Content event.
C28_BrokenSpanIsContent ==
    OneStructuredScanned =>
        \A sp \in BrokenSpans(consumed[1].text) :
            /\ FollowupTexts(emitted) = <<>>
            /\ InSomeContent(emitted, SubSeq(consumed[1].text, sp[1], sp[2] + 1))

\* C28, amended: no marker handled has a line break inside; and when the
\* text of a chunk holds no '<<' closed by a '>>' on the same line, a span
\* with a line break inside gives no FollowupQuestion and its text,
\* delimiters included, stands inside a Content event.
C28_BrokenSpanWithoutMarker ==
    /\ pc = "for" => ~Contains(match.group, <<"\n">>)
    /\ (OneStructuredScanned /\ ~ContainsMarker(consumed[1].text)) =>
         \A sp \in BrokenSpans(consumed[1].text) :
            /\ FollowupTexts(emitted) = <<>>
            /\ InSomeContent(emitted, SubSeq(consumed[1].text, sp[1], sp[2] + 1))

\* a chunk whose text has a span with a line break inside, and no marker,
\* has been scanned
C28_Witness ==
    /\ OneStructuredScanned
    /\ ~ContainsMarker(consumed[1].text)
    /\ BrokenSpans(consumed[1].text) # {}
    /\ emitted # <<>>

----------------------------------------------------------------------------
(* C30 *)

\* C30: a request with an empty message list starts no stream: chat_stream
\* raises IndexError at chat.py:25, no generator runs, the chain delivers no
\* chunk, no frame is yielded, [DONE] included, and nothing happens after.
C30_EmptyRequestFails ==
    (chat_input.messages = <<>> /\ pc # "chat_stream") =>
        /\ pc = "raised"
        /\ exc = "IndexError"
        /\ consumed = <<>>
        /\ emitted = <<>>
        /\ ~ENABLED NextRequest

\* chat_stream was called with an empty message list
C30_Witness ==
    /\ chat_input.messages = <<>>
    /\ pc = "raised"
    /\ exc = "IndexError"

----------------------------------------------------------------------------
(* dependencies.py: the module global chain and the three functions that   *)
(* touch it.  A chain is the number of the chat_chain call that built it.  *)

\* the module has been imported, nothing has been called
InitDeps ==
    /\ consumed = <<>>
    /\ chunk = NoChunk
    /\ followup_question_buffer = <<>>
    /\ content_buffer = StrValue(<<>>)
    /\ in_followup_question = FALSE
    /\ match = NoMatch
    /\ followup_questions = <<>>
    /\ qi = 0
    /\ emitted = <<>>
    /\ pc = "astream"
    /\ exc = "none"
    /\ question = <<>>
    /\ chat_input = [messages |-> <<>>]
    /\ astream_input = [question |-> <<>>]
    /\ parked = <<>>
    /\ ClientIdle
    /\ chain = 0
    /\ built = 0
    /\ dep_log = <<>>
    /\ got = [kind |-> "none", id |-> 0]

\* dependencies.py:9-11: chat_chain returns a new chain
initialize_chain ==
    /\ Len(dep_log) < MaxCalls
    /\ built' = built + 1
    /\ chain' = built + 1
    /\ dep_log' = Append(dep_log, [op |-> "initialize_chain", ok |-> TRUE, id |-> built + 1])
    /\ UNCHANGED <<generator_vars, chat_input, astream_input, parked, client_vars, got>>

\* dependencies.py:11, chat_services.py:22-26: chat_chain raises, the
\* assignment does not take place
initialize_chain_raises ==
    /\ Len(dep_log) < MaxCalls
    /\ dep_log' = Append(dep_log, [op |-> "initialize_chain", ok |-> FALSE, id |-> 0])
    /\ UNCHANGED <<generator_vars, chat_input, astream_input, parked, client_vars,
                   chain, built, got>>

\* dependencies.py:13-15
clear_chain ==
    /\ Len(dep_log) < MaxCalls
    /\ chain' = 0
    /\ dep_log' = Append(dep_log, [op |-> "clear_chain", ok |-> TRUE, id |-> 0])
    /\ UNCHANGED <<generator_vars, chat_input, astream_input, parked, client_vars,
                   built, got>>

\* as dependencies.py:17-20 without the test of line 18
get_chain_unchecked ==
    /\ Len(dep_log) < MaxCalls
    /\ got' = [kind |-> "chain", id |-> chain]
    /\ dep_log' = Append(dep_log, [op |-> "get_chain", ok |-> TRUE, id |-> chain])
    /\ UNCHANGED <<generator_vars, chat_input, astream_input, parked, client_vars,
                   chain, built>>

\* dependencies.py:17-20: the chain is there and is returned
get_chain ==
    /\ Len(dep_log) < MaxCalls
    /\ chain # 0
    /\ got' = [kind |-> "chain", id |-> chain]
    /\ dep_log' = Append(dep_log, [op |-> "get_chain", ok |-> TRUE, id |-> chain])
    /\ UNCHANGED <<generator_vars, chat_input, astream_input, parked, client_vars,
                   chain, built>>

\* dependencies.py:18-19: the chain is None
get_chain_raises ==
    /\ Len(dep_log) < MaxCalls
    /\ chain = 0
    /\ got' = [kind |-> "RuntimeError", id |-> 0]
    /\ dep_log' = Append(dep_log, [op |-> "get_chain", ok |-> FALSE, id |-> 0])
    /\ UNCHANGED <<generator_vars, chat_input, astream_input, parked, client_vars,
                   chain, built>>

NextDeps ==
    \/ initialize_chain
    \/ initialize_chain_raises
    \/ clear_chain
    \/ get_chain
    \/ get_chain_raises

SpecDeps == InitDeps /\ [][NextDeps]_vars

----------------------------------------------------------------------------
(* C29 *)

\* the calls of log that are not get_chain
Settings(log) == SelectSeq(log, LAMBDA e : e.op # "get_chain")

\* the calls of log that assigned the global
Assignments(log) ==
    SelectSeq(log, LAMBDA e : e.op = "clear_chain" \/ (e.op = "initialize_chain" /\ e.ok))

\* what get_chain gives when the last call of the calls cs decides:
\* RuntimeError when there is none or it is no successful initialize_chain
DecidedBy(cs) ==
    IF cs # <<>> /\ cs[Len(cs)].op = "initialize_chain" /\ cs[Len(cs)].ok
    THEN [kind |-> "chain", id |-> cs[Len(cs)].id]
    ELSE [kind |-> "RuntimeError", id |-> 0]

\* the last call was get_chain
JustGot == dep_log # <<>> /\ dep_log[Len(dep_log)].op = "get_chain"

\* C29 as stated: get_chain never returns None; it returns the chain of the
\* most recent initialize_chain when no clear_chain followed it, and raises
\* RuntimeError before the first initialize_chain, after a clear_chain and
\* after an initialize_chain that raised.
C29_GetChainAfterLastCall ==
    JustGot =>
        /\ got # [kind |-> "chain", id |-> 0]
        /\ got = DecidedBy(Settings(dep_log))

\* C29, amended: get_chain never returns None; it returns the chain of the
\* most recent initialize_chain that returned when no clear_chain followed
\* it, and raises RuntimeError before the first such initialize_chain and
\* after a clear_chain; an initialize_chain that raised changes nothing.
C29_GetChainAfterLastAssignment ==
    JustGot =>
        /\ got # [kind |-> "chain", id |-> 0]
        /\ got = DecidedBy(Assignments(dep_log))

\* get_chain was called after an initialize_chain that returned and one that
\* raised, and it was called after a clear_chain
C29_Witness ==
    /\ JustGot
    /\ Len(dep_log) = 3
    /\ dep_log[1].op = "initialize_chain" /\ dep_log[1].ok
    /\ dep_log[2].op = "initialize_chain" /\ ~dep_log[2].ok
    /\ got = [kind |-> "chain", id |-> 1]

C29_WitnessRaises ==
    /\ JustGot
    /\ Len(dep_log) = 3
    /\ dep_log[1].op = "initialize_chain" /\ dep_log[1].ok
    /\ dep_log[2].op = "clear_chain"
    /\ got.kind = "RuntimeError"

----------------------------------------------------------------------------
(* C26 *)

\* main() has handled the response and has asked for the rerun that shows
\* the session to the user
ExchangeCompleted == cpc = "rerun" /\ status_code = 200

\* C26: after every completed exchange with status 200, started by typing or
\* by clicking a suggested follow-up, the list of follow-up questions the
\* session offers equals the follow-up questions received in the response.
C26_PendingListOffered ==
    ExchangeCompleted =>
        session_followup_questions = FollowupTexts(BeforeSentinel(sent))

\* the same for the chat input branch alone
PendingListOfferedTyped ==
    (ExchangeCompleted /\ started_by = "typed") =>
        session_followup_questions = FollowupTexts(BeforeSentinel(sent))

\* an exchange started by typing has ended with a question to offer
CompletedTyped ==
    /\ ExchangeCompleted
    /\ started_by = "typed"
    /\ session_followup_questions # <<>>

\* an exchange started by a click has ended and its response held a question
CompletedClick ==
    /\ ExchangeCompleted
    /\ started_by = "click"
    /\ FollowupTexts(BeforeSentinel(sent)) # <<>>

====
